---- MODULE Spec2Model ----
\* Model of Day03/Stack/src/main.rs: a fixed-capacity stack of i32 kept in a
\* Vec<i32> plus a separate head counter, driven by an interactive session.
\*
\* Text is a sequence of one-character strings; a line read from stdin keeps
\* its trailing "\n" as read_line does.  A printed line is a sequence of
\* string pieces whose concatenation is the text of the line.
EXTENDS Integers, Sequences, FiniteSets, TLC

VARIABLES stdin, capacity, numbers, head, user_num, stdout, ret, pc, op, before

vars == <<stdin, capacity, numbers, head, user_num, stdout, ret, pc, op, before>>

\* ------------------------------------------------------------------ bounds
MaxCapacity == 3
MaxTokens == 4
MaxBatch == 2

\* --------------------------------------------------------- integer limits
I32_MAX == 2147483647
I32_MIN == (-I32_MAX) - 1

\* ------------------------------------------------------------------- text
IsWhitespace(ch) == ch \in {" ", "\n", "\t", "\r"}

IsDigit(ch) == ch \in {"0", "1", "2", "3", "4", "5", "6", "7", "8", "9"}

DigitVal(ch) ==
  CASE ch = "0" -> 0 [] ch = "1" -> 1 [] ch = "2" -> 2 [] ch = "3" -> 3
    [] ch = "4" -> 4 [] ch = "5" -> 5 [] ch = "6" -> 6 [] ch = "7" -> 7
    [] ch = "8" -> 8 [] ch = "9" -> 9

DigitChar(d) ==
  CASE d = 0 -> "0" [] d = 1 -> "1" [] d = 2 -> "2" [] d = 3 -> "3"
    [] d = 4 -> "4" [] d = 5 -> "5" [] d = 6 -> "6" [] d = 7 -> "7"
    [] d = 8 -> "8" [] d = 9 -> "9"

RECURSIVE TrimStart(_)
TrimStart(s) ==
  IF s # <<>> /\ IsWhitespace(Head(s)) THEN TrimStart(Tail(s)) ELSE s

RECURSIVE TrimEnd(_)
TrimEnd(s) ==
  IF s # <<>> /\ IsWhitespace(s[Len(s)])
  THEN TrimEnd(SubSeq(s, 1, Len(s) - 1))
  ELSE s

\* str::trim
Trim(s) == TrimEnd(TrimStart(s))

\* str::split_whitespace: the maximal runs of non-whitespace, in order.
\* cur is the run being collected.
RECURSIVE SplitFrom(_, _)
SplitFrom(s, cur) ==
  IF s = <<>> THEN (IF cur = <<>> THEN <<>> ELSE <<cur>>)
  ELSE IF IsWhitespace(Head(s))
       THEN (IF cur = <<>> THEN <<>> ELSE <<cur>>) \o SplitFrom(Tail(s), <<>>)
       ELSE SplitFrom(Tail(s), Append(cur, Head(s)))

SplitWhitespace(s) == SplitFrom(s, <<>>)

\* ------------------------------------------------------- integer parsing
ParseErr == [ok |-> FALSE, val |-> 0]

ParseOk(v) == [ok |-> TRUE, val |-> v]

\* Accumulate the digits of a non-negative literal with checked arithmetic:
\* the result, or -1 on a non-digit or on exceeding limit.
RECURSIVE AccumulatePos(_, _, _)
AccumulatePos(s, acc, limit) ==
  IF s = <<>> THEN acc
  ELSE IF ~IsDigit(Head(s)) THEN -1
  ELSE IF acc > (limit - DigitVal(Head(s))) \div 10 THEN -1
  ELSE AccumulatePos(Tail(s), acc * 10 + DigitVal(Head(s)), limit)

\* Accumulate the digits of a negative literal downwards (result*10 - digit),
\* as the signed parser does so that I32_MIN is accepted: the result, or 1 on
\* a non-digit or on going below I32_MIN.
RECURSIVE AccumulateNeg(_, _)
AccumulateNeg(s, acc) ==
  IF s = <<>> THEN acc
  ELSE IF ~IsDigit(Head(s)) THEN 1
  ELSE IF \/ acc < -(I32_MAX \div 10)
          \/ acc = -(I32_MAX \div 10) /\ DigitVal(Head(s)) > (I32_MAX % 10) + 1
       THEN 1
  ELSE AccumulateNeg(Tail(s), acc * 10 - DigitVal(Head(s)))

\* mutant: a literal beyond the range is clamped to the nearest limit
ParseI32Saturating(s) ==
  IF s = <<>> THEN ParseErr
  ELSE IF Len(s) = 1 /\ Head(s) \in {"+", "-"} THEN ParseErr
  ELSE LET d == IF Head(s) \in {"+", "-"} THEN Tail(s) ELSE s
           digits == \A i \in DOMAIN d : IsDigit(d[i])
       IN IF ~digits THEN ParseErr
          ELSE IF Head(s) = "-"
          THEN LET v == AccumulateNeg(d, 0)
               IN IF v = 1 THEN ParseOk(I32_MIN) ELSE ParseOk(v)
          ELSE LET v == AccumulatePos(d, 0, I32_MAX)
               IN IF v = -1 THEN ParseOk(I32_MAX) ELSE ParseOk(v)

\* <i32 as FromStr>::from_str
ParseI32(s) ==
  IF s = <<>> THEN ParseErr
  ELSE IF Len(s) = 1 /\ Head(s) \in {"+", "-"} THEN ParseErr
  ELSE IF Head(s) = "-"
       THEN LET v == AccumulateNeg(Tail(s), 0)
            IN IF v = 1 THEN ParseErr ELSE ParseOk(v)
       ELSE LET d == IF Head(s) = "+" THEN Tail(s) ELSE s
                v == AccumulatePos(d, 0, I32_MAX)
            IN IF v = -1 THEN ParseErr ELSE ParseOk(v)

\* mutant: a capacity that does not parse counts as 0
ParseUsizeOrZero(s) ==
  IF s = <<>> THEN ParseOk(0)
  ELSE IF Len(s) = 1 /\ Head(s) \in {"+", "-"} THEN ParseOk(0)
  ELSE LET d == IF Head(s) = "+" THEN Tail(s) ELSE s
           v == AccumulatePos(d, 0, I32_MAX)
       IN IF v = -1 THEN ParseOk(0) ELSE ParseOk(v)

\* <usize as FromStr>::from_str: a leading "+" is accepted, a "-" is an
\* invalid digit.  Capacities of the model stay far below usize::MAX, so the
\* limit used for the overflow check is that of the model's integers.
ParseUsize(s) ==
  IF s = <<>> THEN ParseErr
  ELSE IF Len(s) = 1 /\ Head(s) \in {"+", "-"} THEN ParseErr
  ELSE LET d == IF Head(s) = "+" THEN Tail(s) ELSE s
           v == AccumulatePos(d, 0, I32_MAX)
       IN IF v = -1 THEN ParseErr ELSE ParseOk(v)

\* ---------------------------------------------------- integer formatting
RECURSIVE FormatNat(_)
FormatNat(n) ==
  IF n < 10 THEN <<DigitChar(n)>>
  ELSE Append(FormatNat(n \div 10), DigitChar(n % 10))

\* <i32 as Display>::fmt
FormatI32(v) ==
  IF v >= 0 THEN FormatNat(v)
  ELSE IF v = I32_MIN
       THEN <<"-">> \o FormatNat(I32_MAX \div 10) \o <<DigitChar((I32_MAX % 10) + 1)>>
  ELSE <<"-">> \o FormatNat(-v)

\* --------------------------------------------------------------- messages
CapacityPrompt == <<"Enter the maximum capacity for the stack:">>

PushPrompt == <<"Enter the numbers to push into the stack separated by space">>

StackFullMsg == <<"Stack is full. Cannot push more elements.">>

AllRemovedMsg == <<"All elements have been removed from the stack">>

StackEmptyMsg == <<"The stack is empty">>

DisplayHeader == <<"The elements in the stack are:">>

RemovedLine(element) ==
  <<"The removed element from the stack is ">> \o FormatI32(element)

TopLine(value) == <<"Top of the stack contains ">> \o FormatI32(value)

\* Option<i32>
None == <<>>

Some(v) == <<v>>

\* ------------------------------------------------------------------ stdin
\* Stdin::read_line: the next line, or the empty string at end of input.
ReadLine(in) == IF in = <<>> THEN <<>> ELSE Head(in)

RestOfInput(in) == IF in = <<>> THEN <<>> ELSE Tail(in)

\* ------------------------------------------------------------------- push
\* mutants of the guard: an off-by-one limit, and a strict comparison
IsFullOffByOne(h, cap) == h = cap + 1

IsFullStrict(h, cap) == h > cap

\* mutant: a capacity of 0 is taken to mean no limit
IsFullUnlessZero(h, cap) == cap > 0 /\ h = cap

\* the guard of line 40
IsFull(h, cap) == h = cap

\* mutant: the counter is not advanced
IncrementHeadSkipped(h) == h

\* line 45
IncrementHead(h) == h + 1

\* mutant: the capacity is checked before the token is parsed
RECURSIVE PushLoopCheckFirst(_, _, _, _)
PushLoopCheckFirst(tokens, nums, h, cap) ==
  IF tokens = <<>>
  THEN [numbers |-> nums, head |-> h, stdout |-> <<>>, panicked |-> FALSE]
  ELSE IF IsFull(h, cap)
  THEN [numbers |-> nums, head |-> h, stdout |-> <<StackFullMsg>>,
        panicked |-> FALSE]
  ELSE LET parsed_num == ParseI32(Head(tokens))
       IN IF ~parsed_num.ok
          THEN [numbers |-> nums, head |-> h, stdout |-> <<>>, panicked |-> TRUE]
          ELSE PushLoopCheckFirst(Tail(tokens), Append(nums, parsed_num.val),
                                  IncrementHead(h), cap)

\* mutant: on a full stack the loop goes on to the next token
RECURSIVE PushLoopContinue(_, _, _, _)
PushLoopContinue(tokens, nums, h, cap) ==
  IF tokens = <<>>
  THEN [numbers |-> nums, head |-> h, stdout |-> <<>>, panicked |-> FALSE]
  ELSE LET parsed_num == ParseI32(Head(tokens))
       IN IF ~parsed_num.ok
          THEN [numbers |-> nums, head |-> h, stdout |-> <<>>, panicked |-> TRUE]
          ELSE IF IsFull(h, cap)
          THEN LET r == PushLoopContinue(Tail(tokens), nums, h, cap)
               IN [r EXCEPT !.stdout = <<StackFullMsg>> \o r.stdout]
          ELSE PushLoopContinue(Tail(tokens), Append(nums, parsed_num.val),
                                IncrementHead(h), cap)

\* the for loop of lines 38-46 over the tokens still to be visited
RECURSIVE PushLoop(_, _, _, _)
PushLoop(tokens, nums, h, cap) ==
  IF tokens = <<>>
  THEN [numbers |-> nums, head |-> h, stdout |-> <<>>, panicked |-> FALSE]
  ELSE LET parsed_num == ParseI32(Head(tokens))
       IN IF ~parsed_num.ok
          THEN [numbers |-> nums, head |-> h, stdout |-> <<>>, panicked |-> TRUE]
          ELSE IF IsFull(h, cap)
          THEN [numbers |-> nums, head |-> h, stdout |-> <<StackFullMsg>>,
                panicked |-> FALSE]
          ELSE PushLoop(Tail(tokens), Append(nums, parsed_num.val),
                        IncrementHead(h), cap)

\* fn push, given the line that read_line delivers
push(nums, h, cap, line) ==
  LET parsed_space == Trim(line)
      r == PushLoop(SplitWhitespace(parsed_space), nums, h, cap)
  IN [r EXCEPT !.stdout = <<PushPrompt>> \o r.stdout]

\* -------------------------------------------------------------------- pop
\* mutant: the counter is not decremented
DecrementHeadSkipped(h) == h

\* line 55
DecrementHead(h) == h - 1

\* mutant: the element is taken from the bottom
VecPopFront(nums) ==
  IF nums = <<>> THEN [numbers |-> nums, removed_element |-> None]
  ELSE [numbers |-> Tail(nums), removed_element |-> Some(Head(nums))]

\* Vec::pop
VecPop(nums) ==
  IF nums = <<>> THEN [numbers |-> nums, removed_element |-> None]
  ELSE [numbers |-> SubSeq(nums, 1, Len(nums) - 1),
        removed_element |-> Some(nums[Len(nums)])]

\* mutant: no check for the empty stack
popUnguarded(nums, h) ==
  LET p == VecPop(nums)
  IN [numbers |-> p.numbers, head |-> DecrementHead(h),
      stdout |-> IF p.removed_element = None THEN <<>>
                 ELSE <<RemovedLine(p.removed_element[1])>>,
      removed_element |-> p.removed_element]

\* fn pop
pop(nums, h) ==
  IF h = 0
  THEN [numbers |-> nums, head |-> h, stdout |-> <<AllRemovedMsg>>,
        removed_element |-> None]
  ELSE LET p == VecPop(nums)
       IN [numbers |-> p.numbers, head |-> DecrementHead(h),
           stdout |-> IF p.removed_element = None THEN <<>>
                      ELSE <<RemovedLine(p.removed_element[1])>>,
           removed_element |-> p.removed_element]

\* ---------------------------------------------------------------- display
\* mutant: the elements are visited bottom-up
DisplayOrderAscending(h) == [k \in 1..h |-> k - 1]

\* (0..head).rev() of line 72, as the 0-based indices in visiting order
DisplayOrder(h) == [k \in 1..h |-> h - k]

\* mutant: no check for the empty stack
displayUnguarded(nums, h) ==
  [stdout |-> <<DisplayHeader>> \o
              [k \in 1..h |-> FormatI32(nums[DisplayOrder(h)[k] + 1])],
   panicked |-> FALSE]

\* fn display; indexing past the end of the slice panics
display(nums, h) ==
  IF h = 0 THEN [stdout |-> <<StackEmptyMsg>>, panicked |-> FALSE]
  ELSE LET order == DisplayOrder(h)
           good == IF \E k \in 1..h : order[k] >= Len(nums)
                   THEN (CHOOSE k \in 1..h : order[k] >= Len(nums)
                           /\ \A j \in 1..(k - 1) : order[j] < Len(nums)) - 1
                   ELSE h
       IN [stdout |-> <<DisplayHeader>> \o
                      [k \in 1..good |-> FormatI32(nums[order[k] + 1])],
           panicked |-> good < h]

\* ------------------------------------------------------- top_of_the_stack
\* mutant: the bottom element is read
TopIndexBottom(h) == 0

\* the 0-based index read at line 83
TopIndex(h) == h - 1

\* mutant: another sentinel for the empty stack
topWithOtherSentinel(nums, h) ==
  IF h = 0 THEN [stdout |-> <<StackEmptyMsg>>, value |-> Some(-1), panicked |-> FALSE]
  ELSE IF TopIndex(h) >= Len(nums)
       THEN [stdout |-> <<>>, value |-> None, panicked |-> TRUE]
       ELSE [stdout |-> <<>>, value |-> Some(nums[TopIndex(h) + 1]),
             panicked |-> FALSE]

\* mutant: nothing is printed for the empty stack
topSilent(nums, h) ==
  IF h = 0 THEN [stdout |-> <<>>, value |-> Some(0), panicked |-> FALSE]
  ELSE IF TopIndex(h) >= Len(nums)
       THEN [stdout |-> <<>>, value |-> None, panicked |-> TRUE]
       ELSE [stdout |-> <<>>, value |-> Some(nums[TopIndex(h) + 1]),
             panicked |-> FALSE]

\* fn top_of_the_stack; indexing past the end of the slice panics
top_of_the_stack(nums, h) ==
  IF h = 0 THEN [stdout |-> <<StackEmptyMsg>>, value |-> Some(0), panicked |-> FALSE]
  ELSE IF TopIndex(h) >= Len(nums)
       THEN [stdout |-> <<>>, value |-> None, panicked |-> TRUE]
       ELSE [stdout |-> <<>>, value |-> Some(nums[TopIndex(h) + 1]),
             panicked |-> FALSE]

\* ----------------------------------------------------------------- inputs
Range(f) == {f[i] : i \in DOMAIN f}

\* a valid token, the same with value 0, a negative one, a non-number, and
\* one just above i32::MAX
TokenSet ==
  { <<"7">>, <<"0">>, <<"-", "3">>, <<"x">>,
    <<"2", "1", "4", "7", "4", "8", "3", "6", "4", "8">> }

TokenSeqs(n) == UNION {[1..k -> TokenSet] : k \in 0..n}

RECURSIVE JoinTokens(_)
JoinTokens(toks) ==
  IF toks = <<>> THEN <<>>
  ELSE IF Len(toks) = 1 THEN Head(toks)
  ELSE Head(toks) \o <<" ">> \o JoinTokens(Tail(toks))

AsLine(text) == text \o <<"\n">>

\* the scenario lines of the walkthroughs, lines with irregular spacing or
\* without the final newline, and lines with tokens at and just beyond
\* i32::MAX and i32::MIN
ExtraPushInputs ==
  { <<"1", " ", "2", " ", "3", "\n">>,
    <<"5", " ", "6", " ", "7", "\n">>,
    <<" ", " ", "7", " ", " ", "\t", "0", " ", "\n">>,
    <<"7", " ", "-", "3">>,
    <<"+", "7", " ", "0", "0", "7", "\r", "\n">>,
    <<"2", "1", "4", "7", "4", "8", "3", "6", "4", "7", " ",
      "-", "2", "1", "4", "7", "4", "8", "3", "6", "4", "8", " ", "7", "\n">>,
    <<"7", " ", "-", "2", "1", "4", "7", "4", "8", "3", "6", "4", "9", " ",
      "0", "\n">>,
    <<"-", "0", " ", "+", "2", "1", "4", "7", "4", "8", "3", "6", "4", "7", " ",
      "0", "0", "2", "1", "4", "7", "4", "8", "3", "6", "4", "8", "\n">> }

PushInputs ==
  {AsLine(JoinTokens(t)) : t \in TokenSeqs(MaxTokens)} \cup ExtraPushInputs

\* the lines fed to push when the operations are called in any order
CallTokenSet == { <<"7">>, <<"0">>, <<"x">> }

CallInputs ==
  {AsLine(JoinTokens(t)) : t \in UNION {[1..k -> CallTokenSet] : k \in 0..MaxBatch}}

CapacityInputs ==
  {AsLine(FormatNat(c)) : c \in 0..MaxCapacity} \cup
  { <<"5", "\n">>, <<"+", "2", "\n">>, <<" ", "1", " ", "\r", "\n">>,
    <<"-", "1", "\n">>, <<"-", "0", "\n">>, <<"x", "\n">>, <<"\n">>,
    <<"1", " ", "2", "\n">>, <<"2">> }

\* what the session finds on stdin: both lines, or end of input early
SessionInputs ==
  {<<c, l>> : c \in CapacityInputs, l \in PushInputs} \cup
  {<<c>> : c \in CapacityInputs} \cup {<<>>}

\* ------------------------------------------------------------------ state
Snapshot ==
  [numbers |-> numbers, head |-> head, op |-> op, stdout |-> stdout, pc |-> pc]

\* the session of fn main, before its first statement
Init ==
  /\ stdin \in SessionInputs
  /\ capacity = 0
  /\ numbers = <<>>
  /\ head = 0
  /\ user_num = <<>>
  /\ stdout = <<>>
  /\ ret = None
  /\ pc = "main"
  /\ op = "start"
  /\ before = [numbers |-> <<>>, head |-> 0, op |-> "start", stdout |-> <<>>,
               pc |-> "start"]

\* a stack as lines 9-11 construct it, to be driven by arbitrary calls
InitCalls ==
  /\ stdin = <<>>
  /\ capacity \in 0..MaxCapacity
  /\ numbers = <<>>
  /\ head = 0
  /\ user_num = <<>>
  /\ stdout = <<>>
  /\ ret = None
  /\ pc = "calls"
  /\ op = "construct"
  /\ before = [numbers |-> <<>>, head |-> 0, op |-> "start", stdout |-> <<>>,
               pc |-> "start"]

\* ---------------------------------------------------------------- actions
\* lines 2-11 of main
MainConstruct ==
  /\ pc = "main"
  /\ LET line == ReadLine(stdin)
         parsed == ParseUsize(Trim(line))
     IN /\ stdin' = RestOfInput(stdin)
        /\ stdout' = <<CapacityPrompt>>
        /\ capacity' = IF parsed.ok THEN parsed.val ELSE capacity
        /\ pc' = IF parsed.ok THEN "push" ELSE "panicked"
  /\ numbers' = <<>>
  /\ head' = 0
  /\ ret' = None
  /\ op' = "construct"
  /\ before' = Snapshot
  /\ UNCHANGED user_num

\* a call of push that reads line, continuing at next
DoPush(line, next) ==
  LET r == push(numbers, head, capacity, line)
  IN /\ user_num' = line
     /\ numbers' = r.numbers
     /\ head' = r.head
     /\ stdout' = r.stdout
     /\ ret' = None
     /\ pc' = IF r.panicked THEN "panicked" ELSE next
     /\ op' = "push"
     /\ before' = Snapshot
     /\ UNCHANGED capacity

\* a call of top_of_the_stack; report: the caller prints the result as
\* lines 15-18 do
DoTop(next, report) ==
  LET r == top_of_the_stack(numbers, head)
  IN /\ ret' = r.value
     /\ stdout' = IF report /\ ~r.panicked
                  THEN r.stdout \o <<TopLine(r.value[1])>>
                  ELSE r.stdout
     /\ pc' = IF r.panicked THEN "panicked" ELSE next
     /\ op' = "top"
     /\ before' = Snapshot
     /\ UNCHANGED <<stdin, capacity, numbers, head, user_num>>

\* a call of pop
DoPop(next) ==
  LET r == pop(numbers, head)
  IN /\ numbers' = r.numbers
     /\ head' = r.head
     /\ ret' = r.removed_element
     /\ stdout' = r.stdout
     /\ pc' = next
     /\ op' = "pop"
     /\ before' = Snapshot
     /\ UNCHANGED <<stdin, capacity, user_num>>

\* a call of display
DoDisplay(next) ==
  LET r == display(numbers, head)
  IN /\ stdout' = r.stdout
     /\ ret' = None
     /\ pc' = IF r.panicked THEN "panicked" ELSE next
     /\ op' = "display"
     /\ before' = Snapshot
     /\ UNCHANGED <<stdin, capacity, numbers, head, user_num>>

\* line 13
MainPush ==
  /\ pc = "push"
  /\ DoPush(ReadLine(stdin), "top")
  /\ stdin' = RestOfInput(stdin)

\* lines 15-18
MainTop == pc = "top" /\ DoTop("pop1", TRUE)

\* line 20
MainPop1 == pc = "pop1" /\ DoPop("pop2")

\* mutant: the second pop is left out
MainPop2Skipped == pc = "pop2" /\ DoDisplay("done")

\* line 22
MainPop2 == pc = "pop2" /\ DoPop("display")

\* line 24
MainDisplay == pc = "display" /\ DoDisplay("done")

Next ==
  \/ MainConstruct
  \/ MainPush
  \/ MainTop
  \/ MainPop1
  \/ MainPop2
  \/ MainDisplay

Spec == Init /\ [][Next]_vars

\* the four operations called in any order on a constructed stack
CallPush ==
  /\ pc = "calls"
  /\ \E line \in CallInputs : DoPush(line, "calls")
  /\ UNCHANGED stdin

CallTop == pc = "calls" /\ DoTop("calls", FALSE)

CallPop == pc = "calls" /\ DoPop("calls")

CallDisplay == pc = "calls" /\ DoDisplay("calls")

NextCalls ==
  \/ CallPush
  \/ CallTop
  \/ CallPop
  \/ CallDisplay

SpecCalls == InitCalls /\ [][NextCalls]_vars

\* ------------------------------------------------------- claim vocabulary
\* the tokens of the line the last push read, and their values
Batch == SplitWhitespace(Trim(user_num))

AllValid(toks) == \A i \in DOMAIN toks : ParseI32(toks[i]).ok

Values(toks) == [i \in DOMAIN toks |-> ParseI32(toks[i]).val]

Min(a, b) == IF a < b THEN a ELSE b

Constructed == pc \notin {"main"} /\ op # "start" /\ ~(op = "construct" /\ pc = "panicked")

\* C1: once the stack is constructed, after any sequence of push, pop, top
\* and display calls, 0 <= head <= capacity and head is the number of
\* elements stored.
C1_HeadInvariant ==
  Constructed => /\ 0 <= head
                 /\ head <= capacity
                 /\ head = Len(numbers)

\* a push that ran into the capacity limit
C1_Witness ==
  /\ op = "push"
  /\ capacity > 0
  /\ head = capacity
  /\ StackFullMsg \in Range(stdout)

\* the last step was the session's push onto the newly constructed stack
PushedOntoNew == op = "push" /\ before.op = "construct" /\ before.head = 0

\* C2: a batch of n > capacity valid integers pushed onto a newly constructed
\* stack leaves exactly the first capacity values, in input order, with
\* head = capacity and the stack-full message printed; nothing else is stored.
C2_PushBeyondCapacity ==
  (PushedOntoNew /\ AllValid(Batch) /\ Len(Batch) > capacity) =>
     /\ pc = "top"
     /\ head = capacity
     /\ Len(numbers) = capacity
     /\ numbers = SubSeq(Values(Batch), 1, capacity)
     /\ stdout = <<PushPrompt, StackFullMsg>>

\* two of four values kept
C2_Witness ==
  /\ PushedOntoNew
  /\ AllValid(Batch)
  /\ Len(Batch) = 4
  /\ capacity = 2
  /\ numbers = <<7, -3>>
  /\ StackFullMsg \in Range(stdout)

\* C3: a batch of n valid integers, 1 <= n <= capacity, pushed onto the empty
\* stack gives head = n and the elements in push order, and the Top that
\* follows returns the last value of the batch.
C3_PushWithinCapacity ==
  /\ (PushedOntoNew /\ AllValid(Batch) /\ Len(Batch) >= 1 /\ Len(Batch) <= capacity) =>
        /\ pc = "top"
        /\ head = Len(Batch)
        /\ numbers = Values(Batch)
        /\ stdout = <<PushPrompt>>
  /\ (op = "top" /\ before.op = "push" /\ AllValid(Batch)
        /\ Len(Batch) >= 1 /\ Len(Batch) <= capacity) =>
        /\ ret = Some(Values(Batch)[Len(Batch)])
        /\ stdout = <<TopLine(Values(Batch)[Len(Batch)])>>

\* Top after three distinct values
C3_Witness ==
  /\ op = "top"
  /\ before.op = "push"
  /\ capacity = 3
  /\ numbers = <<7, 0, -3>>
  /\ ret = Some(-3)

\* C4: a Pop on a stack with head > 0 removes exactly the element at index
\* head-1, reports it, lowers head by one and leaves the elements below it
\* unchanged and in order.
C4_PopRemovesTop ==
  (op = "pop" /\ before.head > 0) =>
     /\ ret = Some(before.numbers[before.head])
     /\ stdout = <<RemovedLine(before.numbers[before.head])>>
     /\ head = before.head - 1
     /\ Len(numbers) = Len(before.numbers) - 1
     /\ numbers = SubSeq(before.numbers, 1, before.head - 1)

\* a pop that leaves a different value below
C4_Witness ==
  /\ op = "pop"
  /\ before.numbers = <<7, 0>>
  /\ ret = Some(0)
  /\ numbers = <<7>>

\* C5: a Pop on a stack with head = 0 prints the all-removed message, does
\* not abort, leaves head at 0 and the elements unchanged, and the next
\* operation can follow; also when the pops on the empty stack repeat.
C5_PopOnEmpty ==
  (op = "pop" /\ before.head = 0) =>
     /\ stdout = <<AllRemovedMsg>>
     /\ ret = None
     /\ head = 0
     /\ numbers = before.numbers
     /\ pc = "calls"
     /\ ENABLED CallPop
     /\ ENABLED CallPush

\* the second of two pops on the empty stack
C5_Witness ==
  /\ op = "pop"
  /\ before.op = "pop"
  /\ before.head = 0
  /\ before.stdout = <<AllRemovedMsg>>
  /\ stdout = <<AllRemovedMsg>>
  /\ head = 0

\* the last push read a line holding exactly one valid integer
PushedOne == op = "push" /\ pc = "calls" /\ Len(Batch) = 1 /\ AllValid(Batch)

\* C6 as stated: in every reachable state, pushing a value v and popping at
\* once returns v and restores head and the elements.
C6_RoundTripAnyState ==
  [][(PushedOne /\ op' = "pop") =>
       /\ ret' = Some(Values(Batch)[1])
       /\ head' = before.head
       /\ numbers' = before.numbers]_vars

\* C6 amended: in every reachable state with head < capacity, pushing a value
\* v and popping at once returns v and restores head and the elements.
C6_RoundTripBelowCapacity ==
  [][(PushedOne /\ before.head < capacity /\ op' = "pop") =>
       /\ ret' = Some(Values(Batch)[1])
       /\ head' = before.head
       /\ numbers' = before.numbers]_vars

\* 7 pushed onto <<0>> without reaching the limit, then popped
C6_Witness ==
  /\ op = "pop"
  /\ before.op = "push"
  /\ before.stdout = <<PushPrompt>>
  /\ before.numbers = <<0, 7>>
  /\ Len(Batch) = 1
  /\ ret = Some(7)
  /\ numbers = <<0>>
  /\ head = 1

\* C7: Top changes neither head nor the elements; with head > 0 it returns
\* the element at index head-1 and with head = 0 the sentinel 0, the value it
\* also returns when the top element is 0.
C7_TopIsPure ==
  (op = "top") =>
     /\ head = before.head
     /\ numbers = before.numbers
     /\ pc = "calls"
     /\ (head > 0 => ret = Some(numbers[head]))
     /\ (head = 0 => ret = Some(0))
     /\ ((head = 0 \/ numbers[head] = 0) => ret = top_of_the_stack(<<>>, 0).value)

\* Top on a stack whose top element is 0
C7_Witness ==
  /\ op = "top"
  /\ head = 2
  /\ numbers = <<7, 0>>
  /\ ret = Some(0)

\* C8: Display changes neither head nor the elements; with head > 0 it prints
\* the header and then the head elements, one per line, from index head-1
\* down to 0; with head = 0 it prints that the stack is empty; a Display
\* right after a Display prints the same lines.
C8_DisplayTopToBottom ==
  (op = "display") =>
     /\ head = before.head
     /\ numbers = before.numbers
     /\ pc = "calls"
     /\ (head = 0 => stdout = <<StackEmptyMsg>>)
     /\ (head > 0 =>
           /\ Len(stdout) = head + 1
           /\ stdout[1] = DisplayHeader
           /\ \A k \in 1..head :
                /\ stdout[k + 1] = FormatI32(numbers[head - k + 1])
                /\ ParseI32(stdout[k + 1]) = ParseOk(numbers[head - k + 1]))
     /\ (before.op = "display" => stdout = before.stdout)

\* the second of two Displays of a stack of two different values
C8_Witness ==
  /\ op = "display"
  /\ before.op = "display"
  /\ numbers = <<7, 0>>
  /\ stdout = <<DisplayHeader, <<"0">>, <<"7">>>>

\* the session has performed its push, and the line held a malformed token
PushedMalformed ==
  /\ op \in {"push", "top", "pop", "display"}
  /\ ~AllValid(Batch)

FirstMalformed ==
  CHOOSE i \in DOMAIN Batch :
    /\ ~ParseI32(Batch[i]).ok
    /\ \A j \in 1..(i - 1) : ParseI32(Batch[j]).ok

AbortedInPush == pc = "panicked" /\ op = "push"

\* C9 as stated: a line with a malformed token at any position aborts the
\* session in the push, so Top, Pop and Display are never performed.
C9_AnyMalformedTokenAborts == PushedMalformed => AbortedInPush

\* C9 amended: the tokens are parsed one by one and parsing ends with the
\* token on which the stack-full message is printed; the session aborts in
\* the push exactly when the first malformed token is among the first
\* capacity + 1 tokens of the line, and a line whose malformed tokens all
\* come later is pushed as usual and Top, Pop and Display follow.
C9_MalformedTokenAbortsIfParsed ==
  PushedMalformed => (AbortedInPush <=> FirstMalformed <= capacity + 1)

\* the token right after the last free slot is malformed: abort, no
\* stack-full message
C9_Witness ==
  /\ AbortedInPush
  /\ capacity = 2
  /\ numbers = <<7, 0>>
  /\ Len(Batch) = 4
  /\ FirstMalformed = 3
  /\ stdout = <<PushPrompt>>

\* C10: in a session whose push line holds n valid integers, with
\* k = min(n, capacity): Top reports the k-th value (0 if k = 0), the first
\* Pop the k-th and the second Pop the (k-1)-th value when they exist and
\* the all-removed message otherwise, and Display prints the first k-2 values
\* in reverse order, or that the stack is empty when k <= 2.  Capacity 5 with
\* line 1 2 3 ends with Display printing only 1.
C10_SessionReports ==
  LET vals == Values(Batch)
      k == Min(Len(Batch), capacity)
  IN (op \in {"top", "pop", "display"} /\ AllValid(Batch)) =>
     /\ pc = "pop1" =>
          /\ ret = Some(IF k = 0 THEN 0 ELSE vals[k])
          /\ stdout[Len(stdout)] = TopLine(IF k = 0 THEN 0 ELSE vals[k])
     /\ pc = "pop2" =>
          stdout = IF k >= 1 THEN <<RemovedLine(vals[k])>> ELSE <<AllRemovedMsg>>
     /\ pc = "display" =>
          stdout = IF k >= 2 THEN <<RemovedLine(vals[k - 1])>> ELSE <<AllRemovedMsg>>
     /\ pc = "done" =>
          stdout = IF k <= 2 THEN <<StackEmptyMsg>>
                   ELSE <<DisplayHeader>> \o
                        [i \in 1..(k - 2) |-> FormatI32(vals[k - 1 - i])]
     /\ pc # "panicked"
     /\ (capacity = 5 /\ vals = <<1, 2, 3>>) =>
          /\ pc = "pop1" => stdout = <<<<"Top of the stack contains ", "3">>>>
          /\ pc = "pop2" => ret = Some(3)
          /\ pc = "display" => ret = Some(2)
          /\ pc = "done" => stdout = <<DisplayHeader, <<"1">>>>

\* the end of the session with capacity 5 and line 1 2 3
C10_Witness ==
  /\ pc = "done"
  /\ capacity = 5
  /\ user_num = <<"1", " ", "2", " ", "3", "\n">>
  /\ numbers = <<1>>
  /\ stdout = <<DisplayHeader, <<"1">>>>

\* C11 as stated: with capacity 0 every push, whatever the batch, prints the
\* stack-full message and stores nothing, and the Top that follows prints
\* that the stack is empty.
C11_CapacityZeroAlwaysFull ==
  /\ (capacity = 0 /\ op = "push") =>
        /\ StackFullMsg \in Range(stdout)
        /\ head = 0
        /\ numbers = <<>>
  /\ (capacity = 0 /\ op = "top") => StackEmptyMsg \in Range(stdout)

\* C11 amended: with capacity 0 no push stores anything (head stays 0); the
\* stack-full message is printed exactly when the first token of the batch is
\* a valid integer; an empty batch prints nothing and a batch whose first
\* token is malformed aborts the session; the Top that follows a push that
\* did not abort prints that the stack is empty and returns 0.
C11_CapacityZeroStoresNothing ==
  /\ (capacity = 0 /\ op = "push") =>
        /\ head = 0
        /\ numbers = <<>>
        /\ (Batch # <<>> /\ ParseI32(Batch[1]).ok) =>
              (pc = "top" /\ stdout = <<PushPrompt, StackFullMsg>>)
        /\ (Batch = <<>>) => (pc = "top" /\ stdout = <<PushPrompt>>)
        /\ (Batch # <<>> /\ ~ParseI32(Batch[1]).ok) =>
              (pc = "panicked" /\ stdout = <<PushPrompt>>)
  /\ (capacity = 0 /\ op = "top") =>
        /\ stdout = <<StackEmptyMsg, TopLine(0)>>
        /\ ret = Some(0)
        /\ head = 0

\* Top after a push of two values onto a stack of capacity 0
C11_Witness ==
  /\ capacity = 0
  /\ op = "top"
  /\ Len(Batch) = 2
  /\ before.stdout = <<PushPrompt, StackFullMsg>>
  /\ stdout[1] = StackEmptyMsg
  /\ numbers = <<>>

\* C12 as stated: Top on the empty stack prints no stack-empty message, so
\* what the session prints for it is what it prints for a top element 0.
C12_TopOnEmptyIsSilent ==
  (op = "top" /\ before.head = 0) =>
     /\ StackEmptyMsg \notin Range(stdout)
     /\ stdout = <<TopLine(0)>>

\* C12 amended: Top on the empty stack returns the sentinel 0, so the report
\* line is the one for a top element 0, but it first prints the stack-empty
\* message; on a non-empty stack only the report line is printed, so the two
\* outputs differ by that message line.
C12_TopOnEmptyPrintsMessage ==
  (op = "top") =>
     /\ before.head = 0 =>
          /\ ret = Some(0)
          /\ stdout = <<StackEmptyMsg, TopLine(0)>>
     /\ before.head > 0 =>
          /\ pc = "pop1"
          /\ stdout = <<TopLine(numbers[head])>>
          /\ (numbers[head] = 0 => (ret = Some(0) /\ stdout = <<TopLine(0)>>))

\* Top on a stack that could hold elements but is empty
C12_Witness ==
  /\ op = "top"
  /\ pc = "pop1"
  /\ capacity > 0
  /\ head = 0
  /\ stdout = <<StackEmptyMsg, <<"Top of the stack contains ", "0">>>>

\* the text is a non-negative integer literal: an optional "+", then digits
IsNonNegativeIntegerText(s) ==
  LET d == IF s # <<>> /\ Head(s) = "+" THEN Tail(s) ELSE s
  IN d # <<>> /\ \A i \in DOMAIN d : IsDigit(d[i])

\* the session is at its start and its capacity line is not such a literal
BadCapacityAhead == pc = "main" /\ ~IsNonNegativeIntegerText(Trim(ReadLine(stdin)))

\* C13: a capacity line that is not a non-negative integer (not a number,
\* empty, or negative) aborts the session in the construction, before the
\* push prompt; the aborted session takes no further step, so no push, top,
\* pop or display occurs.
C13_InvalidCapacityAborts ==
  [][/\ BadCapacityAhead =>
          /\ pc' = "panicked"
          /\ op' = "construct"
          /\ stdout' = <<CapacityPrompt>>
          /\ numbers' = <<>>
          /\ user_num' = <<>>
     /\ pc # "panicked"]_vars

\* the session aborted in the construction with the push line still unread
C13_Witness ==
  /\ pc = "panicked"
  /\ op = "construct"
  /\ stdout = <<CapacityPrompt>>
  /\ stdin # <<>>
  /\ user_num = <<>>

\* C14: for every capacity, the stack right after its construction has
\* head = 0 and no elements, and a Display performed on it prints that the
\* stack is empty (and leaves it as constructed).
C14_NewStackIsEmpty ==
  /\ (op = "construct") =>
        /\ capacity >= 0
        /\ head = 0
        /\ numbers = <<>>
        /\ display(numbers, head).stdout = <<StackEmptyMsg>>
  /\ (op = "display" /\ before.op = "construct") =>
        /\ before.head = 0
        /\ before.numbers = <<>>
        /\ stdout = <<StackEmptyMsg>>
        /\ pc = "calls"
        /\ head = 0
        /\ numbers = <<>>

\* Display as the first call on a new stack with room for elements
C14_Witness ==
  /\ op = "display"
  /\ before.op = "construct"
  /\ capacity > 1
  /\ stdout = <<StackEmptyMsg>>

LineTokens(line) == SplitWhitespace(Trim(line))

\* the capacity line and the push line of the session are well-formed,
\* told from what is still on stdin or from what was read
SessionWellFormed ==
  CASE pc = "main" ->
         /\ ParseUsize(Trim(ReadLine(stdin))).ok
         /\ AllValid(LineTokens(ReadLine(RestOfInput(stdin))))
    [] pc = "push" -> AllValid(LineTokens(ReadLine(stdin)))
    [] OTHER -> op # "construct" /\ AllValid(Batch)

\* the statements of main in their order: where the last step started, the
\* operation it performed and where it ended; the first entry is the start
SessionOrder ==
  { <<"start", "start", "main">>,
    <<"main", "construct", "push">>, <<"push", "push", "top">>,
    <<"top", "top", "pop1">>, <<"pop1", "pop", "pop2">>,
    <<"pop2", "pop", "display">>, <<"display", "display", "done">> }

\* C15: a session whose capacity line and push line are well-formed performs
\* construct, one push, one Top, two Pops and one Display in this order,
\* skipping and repeating nothing, and ends after the Display: it never
\* aborts, every step it has taken is the next one of the order, and it
\* stands at a statement of main or at the end; a stack-full or stack-empty
\* message does not stop it before the Display.
C15_SessionRunsInOrder ==
  SessionWellFormed =>
     /\ pc # "panicked"
     /\ <<before.pc, op, pc>> \in SessionOrder
     /\ (op = "display" <=> pc = "done")

\* a finished session in which the push ran into the limit and the second
\* pop found the stack empty
C15_Witness ==
  /\ pc = "done"
  /\ op = "display"
  /\ capacity = 1
  /\ Len(Batch) = 2
  /\ AllValid(Batch)
  /\ before.stdout = <<AllRemovedMsg>>
  /\ stdout = <<StackEmptyMsg>>

\* how often the last step printed the stack-full message
FullSignals == Cardinality({i \in DOMAIN stdout : stdout[i] = StackFullMsg})

\* C16: a push prints the stack-full message at most once; a push of valid
\* integers (in general: one that does not abort) prints it exactly when the
\* batch holds more values than the capacity - head free slots it started
\* with, so not for a batch that just fills the stack nor for an empty one;
\* with the message the free slots were filled in order, no later token was
\* examined or stored, and the caller goes on.
C16_StackFullOnce ==
  (op = "push") =>
     LET free == capacity - before.head
         stored(n) == [i \in 1..n |-> ParseI32(Batch[i]).val]
     IN /\ FullSignals <= 1
        /\ AllValid(Batch) => pc # "panicked"
        /\ pc # "panicked" => (FullSignals = 1 <=> Len(Batch) > free)
        /\ FullSignals = 1 =>
             /\ pc = "calls"
             /\ stdout = <<PushPrompt, StackFullMsg>>
             /\ head = capacity
             /\ numbers = before.numbers \o stored(free)
        /\ (FullSignals = 0 /\ pc # "panicked") =>
             /\ stdout = <<PushPrompt>>
             /\ head = before.head + Len(Batch)
             /\ numbers = before.numbers \o stored(Len(Batch))

\* a push of two values onto a stack with one free slot: the first fills it,
\* the second finds the stack full
C16_Witness ==
  /\ op = "push"
  /\ pc = "calls"
  /\ capacity = 2
  /\ before.head = 1
  /\ head = 2
  /\ Len(Batch) = 2
  /\ AllValid(Batch)
  /\ FullSignals = 1

\* the step is a push whose line holds exactly one valid integer
PushesOne ==
  /\ op' = "push"
  /\ Len(SplitWhitespace(Trim(user_num'))) = 1
  /\ ParseI32(SplitWhitespace(Trim(user_num'))[1]).ok

PushedValue == ParseI32(SplitWhitespace(Trim(user_num'))[1]).val

\* C17: on a stack still in use with capacity > 0, full and empty are left
\* and entered again: a Pop on a full stack gives head = capacity - 1 and a
\* push of one value right after it is stored without the stack-full message
\* and makes the stack full again; a push of one value onto an empty stack is
\* stored and a Pop right after it makes the stack empty again.
C17_FullAndEmptyAreTransient ==
  [][(pc = "calls" /\ capacity > 0) =>
       /\ (head = capacity /\ op' = "pop") =>
             /\ head' = capacity - 1
             /\ pc' = "calls"
       /\ (op = "pop" /\ before.head = capacity /\ PushesOne) =>
             /\ head' = capacity
             /\ numbers' = Append(numbers, PushedValue)
             /\ stdout' = <<PushPrompt>>
             /\ pc' = "calls"
       /\ (head = 0 /\ PushesOne) =>
             /\ head' = 1
             /\ numbers' = <<PushedValue>>
             /\ stdout' = <<PushPrompt>>
             /\ pc' = "calls"
       /\ (PushedOne /\ before.head = 0 /\ op' = "pop") =>
             /\ head' = 0
             /\ numbers' = <<>>
             /\ ret' = Some(Values(Batch)[1])
             /\ pc' = "calls"]_vars

\* a full stack of capacity 1 was popped and a push of one value has made
\* it full again
C17_Witness ==
  /\ op = "push"
  /\ pc = "calls"
  /\ capacity = 1
  /\ before.op = "pop"
  /\ before.head = 0
  /\ before.stdout = <<RemovedLine(7)>>
  /\ stdout = <<PushPrompt>>
  /\ numbers = <<0>>
  /\ head = 1

\* the digits of a token without its sign
Unsigned(s) == IF s # <<>> /\ Head(s) \in {"+", "-"} THEN Tail(s) ELSE s

\* the token is an integer literal: an optional sign, then digits
IsIntegerText(s) ==
  Unsigned(s) # <<>> /\ \A i \in DOMAIN Unsigned(s) : IsDigit(Unsigned(s)[i])

RECURSIVE StripZeros(_)
StripZeros(d) ==
  IF Len(d) > 1 /\ Head(d) = "0" THEN StripZeros(Tail(d)) ELSE d

\* a is the greater of two numerals of the same length
RECURSIVE NumeralGreater(_, _)
NumeralGreater(a, b) ==
  IF a = <<>> THEN FALSE
  ELSE IF DigitVal(Head(a)) # DigitVal(Head(b))
       THEN DigitVal(Head(a)) > DigitVal(Head(b))
       ELSE NumeralGreater(Tail(a), Tail(b))

\* the integer the token denotes is outside [-2^31, 2^31 - 1], told from its
\* digits alone
OutOfRangeToken(s) ==
  /\ IsIntegerText(s)
  /\ LET d == StripZeros(Unsigned(s))
         lim == IF Head(s) = "-" THEN Tail(FormatI32(I32_MIN))
                ELSE FormatI32(I32_MAX)
     IN Len(d) > Len(lim) \/ (Len(d) = Len(lim) /\ NumeralGreater(d, lim))

IsI32Text(s) == IsIntegerText(s) /\ ~OutOfRangeToken(s)

\* the decimal text of the integer the token denotes
CanonicalText(s) ==
  LET d == StripZeros(Unsigned(s))
  IN IF Head(s) = "-" /\ d # <<"0">> THEN <<"-">> \o d ELSE d

\* the first token of the line that is not an integer of the range
FirstBad ==
  CHOOSE i \in DOMAIN Batch :
    /\ ~IsI32Text(Batch[i])
    /\ \A j \in 1..(i - 1) : IsI32Text(Batch[j])

PushPerformed == op \in {"push", "top", "pop", "display"}

\* C18 as stated: a line holding a token whose value is outside the 32-bit
\* range aborts the session in the push.
C18_OutOfRangeTokenAborts ==
  (PushPerformed /\ \E i \in DOMAIN Batch : OutOfRangeToken(Batch[i])) =>
     AbortedInPush

\* C18 amended: every stored value is the value of its token, within the
\* 32-bit range; a token outside the range is never stored, wrapped or
\* clamped; when such a token is the first bad token of the line the session
\* aborts in the push exactly if it is among the first capacity + 1 tokens
\* (later tokens are never parsed), and the values before it were stored
\* unchanged.
C18_StoredValuesInRange ==
  /\ (op = "push") =>
        /\ Len(numbers) <= Len(Batch)
        /\ \A i \in DOMAIN numbers :
             /\ I32_MIN <= numbers[i] /\ numbers[i] <= I32_MAX
             /\ ~OutOfRangeToken(Batch[i])
             /\ FormatI32(numbers[i]) = CanonicalText(Batch[i])
  /\ (PushPerformed /\ (\E i \in DOMAIN Batch : ~IsI32Text(Batch[i]))
        /\ OutOfRangeToken(Batch[FirstBad])) =>
        /\ AbortedInPush <=> FirstBad <= capacity + 1
        /\ AbortedInPush => (head = FirstBad - 1 /\ Len(numbers) = FirstBad - 1)

\* the session aborted at a token just below i32::MIN after storing one value
C18_Witness ==
  /\ AbortedInPush
  /\ capacity >= 2
  /\ numbers = <<7>>
  /\ Len(Batch) = 3
  /\ Batch[2] = <<"-", "2", "1", "4", "7", "4", "8", "3", "6", "4", "9">>

====
